---- MODULE Spec2Model ----
(***************************************************************************)
(* SudokuSolver (sudoku_solver.py): parsing of the puzzle text, validation *)
(* of the givens, and the reduction loop of build_possibilities, with the  *)
(* read-only queries.  Python strings are sequences of one-character       *)
(* strings; Python lists are sequences; cell index i (0..80) of a Python   *)
(* list is element i + 1 of the sequence.                                  *)
(***************************************************************************)
EXTENDS Integers, Sequences, FiniteSets, TLC

\* ------------------------------------------------------------ constants
NumCells == 81
Side == 9
FullCount == 729

\* ------------------------------------------------------------ bounds
\* cells 0..MaxEditPos of a sample puzzle may carry one overwritten character
MaxEditPos == 9
\* length of the arbitrary tail appended to a prefix in the parser's inputs
MaxTail == 3
\* digit relabellings 0..MaxShift of the pattern grid used as known solutions
MaxShift == 1

\* ------------------------------------------------------------ characters
Digits == <<"1", "2", "3", "4", "5", "6", "7", "8", "9">>

\* str(i) for i in 0..9
str(i) == IF i = 0 THEN "0" ELSE Digits[i]

\* int(letter) for a decimal digit character
int(letter) == CHOOSE n \in 0..9 : str(n) = letter

\* str.isnumeric() on the characters the inputs are drawn from
isnumeric(ch) == \E n \in 0..9 : str(n) = ch

At(list, i) == list[i + 1]

In(x, list) == \E k \in DOMAIN list : list[k] = x

\* list.count(x)
count(list, x) == Cardinality({k \in DOMAIN list : list[k] = x})

\* ------------------------------------------------------------ parser
\* the body of the scanning loop for one character
scan_character(arr, ch) ==
    IF isnumeric(ch) THEN Append(arr, ch)
    ELSE IF ch = "\n" \/ ch = "\r" THEN arr
    ELSE Append(arr, " ")

\* the scanning loop with processor running over first..(last - 1), the range
\* split in halves; the loop is over once arr holds 81 cells
RECURSIVE scan(_, _, _, _)
scan(sudoku_string_, first, last, arr) ==
    IF ~(first < last /\ Len(arr) < NumCells) THEN arr
    ELSE IF last - first = 1 THEN scan_character(arr, At(sudoku_string_, first))
    ELSE LET middle == (first + last) \div 2 IN
         scan(sudoku_string_, middle, last, scan(sudoku_string_, first, middle, arr))

pad(arr) == arr \o [k \in 1..(NumCells - Len(arr)) |-> " "]

parse(sudoku_string_) == pad(scan(sudoku_string_, 0, Len(sudoku_string_), <<>>))

\* ------------------------------------------------------------ units
BoxStarts == <<0, 3, 6, 27, 30, 33, 54, 57, 60>>

BoxOffsets == <<0, 1, 2, 9, 10, 11, 18, 19, 20>>

get_box_start_index(box_number) == BoxStarts[box_number + 1]

\* the cell indices a unit's loops visit, in the order they visit them
box_cells(box_number) ==
    [k \in 1..Side |-> get_box_start_index(box_number) + BoxOffsets[k]]

row_cells(row_number) == [k \in 1..Side |-> row_number * Side + (k - 1)]

column_cells(column_number) == [k \in 1..Side |-> column_number + Side * (k - 1)]

\* ------------------------------------------------------------ validation
\* variant: the digit loop stops one short, range(1, 9)
no_duplicates_to_eight(unit) == \A n \in 1..(Side - 1) : ~(count(unit, str(n)) > 1)

no_duplicates(unit) == \A n \in 1..Side : ~(count(unit, str(n)) > 1)

check_valid_box(arr, box_number) ==
    no_duplicates([k \in 1..Side |-> At(arr, box_cells(box_number)[k])])

check_valid_row(arr, row_number) ==
    no_duplicates([k \in 1..Side |-> At(arr, row_cells(row_number)[k])])

check_valid_column(arr, column_number) ==
    no_duplicates([k \in 1..Side |-> At(arr, column_cells(column_number)[k])])

NoError == "none"

RECURSIVE check_valid_puzzle_from(_, _)
check_valid_puzzle_from(arr, n) ==
    IF n >= Side THEN NoError
    ELSE IF ~check_valid_box(arr, n) THEN "Invalid puzzle. Bad box."
    ELSE IF ~check_valid_row(arr, n) THEN "Invalid puzzle. Bad row."
    ELSE IF ~check_valid_column(arr, n) THEN "Invalid puzzle. Bad column."
    ELSE check_valid_puzzle_from(arr, n + 1)

\* the message of the ValueError check_valid_puzzle raises, or NoError
check_valid_puzzle(arr) == check_valid_puzzle_from(arr, 0)

\* ------------------------------------------------------------ engine
\* the candidate lists before the reduction loop
initial_possibilities(arr) ==
    [c \in 1..NumCells |->
        IF arr[c] # " " THEN <<arr[c]>> ELSE [n \in 1..Side |-> str(n)]]

\* the sum of the lengths of the cells first..(last - 1), the range split in halves
RECURSIVE total_between(_, _, _)
total_between(poss, first, last) ==
    IF last - first = 1 THEN Len(At(poss, first))
    ELSE LET middle == (first + last) \div 2 IN
         total_between(poss, first, middle) + total_between(poss, middle, last)

number_of_possibilites(poss) == total_between(poss, 0, NumCells)

\* variant: list.pop() with no index, which drops the last element
pop_last(list, number) == SubSeq(list, 1, Len(list) - 1)

\* list.pop(list.index(number)): drops the first occurrence of number
pop_index(list, number) ==
    LET k == CHOOSE j \in DOMAIN list :
                 list[j] = number /\ \A m \in 1..(j - 1) : list[m] # number
    IN SubSeq(list, 1, k - 1) \o SubSeq(list, k + 1, Len(list))

\* possibilities[c][0] of the cells of the unit that hold one candidate
numbers_to_eliminate(poss, cells) ==
    LET solved == SelectSeq(cells, LAMBDA c : Len(At(poss, c)) = 1)
    IN [k \in 1..Len(solved) |-> At(poss, solved[k])[1]]

\* variant: the loops without the len(...) != 1 test
RECURSIVE eliminate_unguarded(_, _)
eliminate_unguarded(cell, numbers) ==
    IF numbers = <<>> THEN cell
    ELSE LET number == Head(numbers) IN
         eliminate_unguarded(IF In(number, cell) THEN pop_index(cell, number) ELSE cell,
                             Tail(numbers))

\* what the elimination loops do to one cell of the unit
RECURSIVE eliminate(_, _)
eliminate(cell, numbers) ==
    IF numbers = <<>> THEN cell
    ELSE LET number == Head(numbers) IN
         eliminate(IF Len(cell) # 1 /\ In(number, cell)
                   THEN pop_index(cell, number) ELSE cell,
                   Tail(numbers))

reduce_unit(poss, cells) ==
    LET numbers == numbers_to_eliminate(poss, cells) IN
    [c \in 1..NumCells |->
        IF In(c - 1, cells) THEN eliminate(poss[c], numbers) ELSE poss[c]]

reduce_row(poss, row_number) == reduce_unit(poss, row_cells(row_number))

reduce_column(poss, column_number) == reduce_unit(poss, column_cells(column_number))

reduce_box(poss, box_number) == reduce_unit(poss, box_cells(box_number))

RECURSIVE concat(_, _, _)
concat(poss, cells, k) ==
    IF k > Len(cells) THEN <<>> ELSE At(poss, cells[k]) \o concat(poss, cells, k + 1)

\* variant: count(...) >= 1 in place of count(...) == 1
numbers_to_reduce_any(poss, cells) ==
    LET open == SelectSeq(cells, LAMBDA c : Len(At(poss, c)) > 1)
        closed == SelectSeq(cells, LAMBDA c : ~(Len(At(poss, c)) > 1))
        all_possibilities == concat(poss, open, 1)
        not_to_eliminate == [k \in 1..Len(closed) |-> At(poss, closed[k])[1]]
    IN SelectSeq([j \in 1..10 |-> str(j - 1)],
                 LAMBDA s : count(all_possibilities, s) >= 1 /\ ~In(s, not_to_eliminate))

\* the digits that occur once among the open cells of the box and in no closed one
numbers_to_reduce(poss, cells) ==
    LET open == SelectSeq(cells, LAMBDA c : Len(At(poss, c)) > 1)
        closed == SelectSeq(cells, LAMBDA c : ~(Len(At(poss, c)) > 1))
        all_possibilities == concat(poss, open, 1)
        not_to_eliminate == [k \in 1..Len(closed) |-> At(poss, closed[k])[1]]
    IN SelectSeq([j \in 1..10 |-> str(j - 1)],
                 LAMBDA s : count(all_possibilities, s) = 1 /\ ~In(s, not_to_eliminate))

\* what the collapsing loops do to one cell of the box
RECURSIVE collapse(_, _)
collapse(cell, numbers) ==
    IF numbers = <<>> THEN cell
    ELSE LET number == Head(numbers) IN
         collapse(IF Len(cell) > 1 /\ In(number, cell) THEN <<number>> ELSE cell,
                  Tail(numbers))

find_unique_possibilities_by_box(poss, box_number) ==
    LET cells == box_cells(box_number)
        numbers == numbers_to_reduce(poss, cells)
    IN [c \in 1..NumCells |->
           IF In(c - 1, cells) THEN collapse(poss[c], numbers) ELSE poss[c]]

\* variant: the loop goes on while the total has not grown
loop_continues_on_equal(old, new) == old >= new

\* variant: the comparison the other way round
loop_continues_swapped(old, new) == old < new

\* the loop condition of build_possibilities
loop_continues(old, new) == old > new

\* ------------------------------------------------------------ queries
\* variant: the first candidate of every cell, solved or not
get_reduced_puzzle_first(poss) == [c \in DOMAIN poss |-> poss[c][1]]

get_reduced_puzzle(poss) ==
    [c \in DOMAIN poss |-> IF Len(poss[c]) = 1 THEN poss[c][1] ELSE "."]

\* the inner while loop of build_hints_string: <<hint_string, index>> when it ends
RECURSIVE hints_skip(_, _, _)
hints_skip(hint_string, index, target) ==
    IF target # index
    THEN hints_skip((hint_string \o <<" ">>) \o (IF index % 3 = 0 THEN <<"\n">> ELSE <<>>),
                    index + 1, target)
    ELSE <<hint_string, index>>

RECURSIVE hints_from(_, _, _)
hints_from(remaining_hints, hint_string, index) ==
    IF remaining_hints = <<>> THEN hint_string
    ELSE LET letter == Head(remaining_hints)
             skipped == hints_skip(hint_string, index, int(letter))
             placed == Append(skipped[1], letter)
         IN hints_from(Tail(remaining_hints),
                       IF skipped[2] % 3 = 0 THEN Append(placed, "\n") ELSE placed,
                       skipped[2] + 1)

build_hints_string(remaining_hints) == hints_from(remaining_hints, <<>>, 1)

\* a solved cell's unit is the cell's list itself, an unsolved cell's a string
get_possibilities_for_web(poss) ==
    [c \in DOMAIN poss |->
        IF Len(poss[c]) = 1
        THEN [type |-> "list", value |-> poss[c]]
        ELSE [type |-> "str", value |-> build_hints_string(poss[c])]]

\* ------------------------------------------------------------ inputs
ClassicPuzzle ==
    <<
       "5", "3", ".", ".", "7", ".", ".", ".", ".",
       "6", ".", ".", "1", "9", "5", ".", ".", ".",
       ".", "9", "8", ".", ".", ".", ".", "6", ".",
       "8", ".", ".", ".", "6", ".", ".", ".", "3",
       "4", ".", ".", "8", ".", "3", ".", ".", "1",
       "7", ".", ".", ".", "2", ".", ".", ".", "6",
       ".", "6", ".", ".", ".", ".", "2", "8", ".",
       ".", ".", ".", "4", "1", "9", ".", ".", "5",
       ".", ".", ".", ".", "8", ".", ".", "7", "9" >>

ClassicSolution ==
    <<
       "5", "3", "4", "6", "7", "8", "9", "1", "2",
       "6", "7", "2", "1", "9", "5", "3", "4", "8",
       "1", "9", "8", "3", "4", "2", "5", "6", "7",
       "8", "5", "9", "7", "6", "1", "4", "2", "3",
       "4", "2", "6", "8", "5", "3", "7", "9", "1",
       "7", "1", "3", "9", "2", "4", "8", "5", "6",
       "9", "6", "1", "5", "3", "7", "2", "8", "4",
       "2", "8", "7", "4", "1", "9", "6", "3", "5",
       "3", "4", "5", "2", "8", "6", "1", "7", "9" >>

DocstringPuzzle ==
    <<
       "1", "2", "3", ".", ".", ".", "4", "5", "6",
       ".", ".", "." >>

\* the pattern grid, a complete valid grid, with its digits relabelled by k
Pattern(k) ==
    [c \in 1..NumCells |->
        LET r == (c - 1) \div Side
            col == (c - 1) % Side
        IN str(((3 * (r % 3) + (r \div 3) + col + k) % Side) + 1)]

\* the pattern grid with three cells of four blanked
MaskedPattern(k) ==
    [c \in 1..NumCells |-> IF ((c - 1) * 7 + k) % 4 = 0 THEN Pattern(k)[c] ELSE "."]

Shifts == 0..MaxShift

Samples ==
    {ClassicPuzzle, DocstringPuzzle, Digits, <<>>} \cup {MaskedPattern(k) : k \in Shifts}

EditAlphabet == {Digits[n] : n \in 1..Side} \cup {"0", ".", "\r"}

\* the text with the character of one cell position overwritten
Edited(text) ==
    {[text EXCEPT ![pos + 1] = ch] :
        pos \in {p \in 0..MaxEditPos : p < Len(text)}, ch \in EditAlphabet}

\* the text with a line separator after every nine characters
RECURSIVE WithLines(_, _)
WithLines(text, sep) ==
    IF Len(text) <= Side THEN text \o sep
    ELSE SubSeq(text, 1, Side) \o sep \o WithLines(SubSeq(text, Side + 1, Len(text)), sep)

Separators == {<<"\n">>, <<"\r", "\n">>}

Inputs ==
    Samples
    \cup UNION {Edited(text) : text \in Samples}
    \cup {WithLines(text, sep) : text \in {ClassicPuzzle, Digits}, sep \in Separators}

TailAlphabet == {"7", "0", ".", "x", "\n", "\r"}

RECURSIVE Tails(_)
Tails(n) ==
    IF n = 0 THEN {<<>>}
    ELSE LET shorter == Tails(n - 1) IN
         shorter \cup {Append(t, ch) : t \in {x \in shorter : Len(x) = n - 1},
                                        ch \in TailAlphabet}

Prefixes ==
    {<<>>, SubSeq(ClassicPuzzle, 1, NumCells - 2),
     WithLines(SubSeq(ClassicPuzzle, 1, NumCells - 2), <<"\r", "\n">>)}

ParserInputs == {prefix \o tail : prefix \in Prefixes, tail \in Tails(MaxTail)}

\* the known complete grids the soundness of the reduction is measured against
Solutions == {ClassicSolution} \cup {Pattern(k) : k \in Shifts}

\* ------------------------------------------------------------ state
VARIABLES
    puzzle_string,      \* self.puzzle_string: the constructor's argument
    puzzle_array,       \* self.puzzle_array: <<>> until the scan has run
    possibilities,      \* self.possibilities: <<>> until build_possibilities sets it
    old_possibilities,  \* locals of build_possibilities
    new_possibilities,
    pc,                 \* where the constructor is
    i,                  \* the loop index of the running for loop
    passes,             \* iterations of the while loop completed
    raised,             \* the message of the ValueError raised, or NoError
    ret,                \* what the last query returned
    caller              \* the engine whose check_valid_solution is running this one

vars == <<puzzle_string, puzzle_array, possibilities, old_possibilities,
          new_possibilities, pc, i, passes, raised, ret, caller>>

NoReturn == [query |-> "none", value |-> <<>>]

NoCaller == [active |-> FALSE, puzzle_string |-> <<>>, puzzle_array |-> <<>>,
             possibilities |-> <<>>, old_possibilities |-> 0,
             new_possibilities |-> 0, passes |-> 0]

Fresh(text) ==
    /\ puzzle_string = text
    /\ puzzle_array = <<>>
    /\ possibilities = <<>>
    /\ old_possibilities = 0
    /\ new_possibilities = 0
    /\ pc = "new"
    /\ i = 0
    /\ passes = 0
    /\ raised = NoError
    /\ ret = NoReturn
    /\ caller = NoCaller

Init == \E text \in Inputs : Fresh(text)

InitParser == \E text \in ParserInputs : Fresh(text)

\* ------------------------------------------------------------ constructor
\* __init__, lines 34-48
Parse ==
    /\ pc = "new"
    /\ puzzle_array' = parse(puzzle_string)
    /\ pc' = "parsed"
    /\ UNCHANGED <<puzzle_string, possibilities, old_possibilities,
                   new_possibilities, i, passes, raised, ret, caller>>

\* __init__, line 49
CheckValidPuzzle ==
    /\ pc = "parsed"
    /\ raised' = check_valid_puzzle(puzzle_array)
    /\ pc' = IF raised' = NoError THEN "valid" ELSE "raised"
    /\ UNCHANGED <<puzzle_string, puzzle_array, possibilities, old_possibilities,
                   new_possibilities, i, passes, ret, caller>>

\* build_possibilities, lines 196-202
BuildInitial ==
    /\ pc = "valid"
    /\ possibilities' = initial_possibilities(puzzle_array)
    /\ old_possibilities' = number_of_possibilites(possibilities')
    /\ new_possibilities' = 0
    /\ pc' = "while"
    /\ UNCHANGED <<puzzle_string, puzzle_array, i, passes, raised, ret, caller>>

\* build_possibilities, lines 203-204
WhileTest ==
    /\ pc = "while"
    /\ IF loop_continues(old_possibilities, new_possibilities)
       THEN /\ old_possibilities' = number_of_possibilites(possibilities)
            /\ pc' = "row"
            /\ i' = 0
       ELSE /\ pc' = "done"
            /\ UNCHANGED <<old_possibilities, i>>
    /\ UNCHANGED <<puzzle_string, puzzle_array, possibilities, new_possibilities,
                   passes, raised, ret, caller>>

\* one iteration of a for loop over range(0, 9), and the move to the next loop
Advance(here, next) ==
    IF i + 1 < Side
    THEN pc' = here /\ i' = i + 1
    ELSE pc' = next /\ i' = 0

ReduceRow ==
    /\ pc = "row"
    /\ possibilities' = reduce_row(possibilities, i)
    /\ Advance("row", "column")
    /\ UNCHANGED <<puzzle_string, puzzle_array, old_possibilities,
                   new_possibilities, passes, raised, ret, caller>>

ReduceColumn ==
    /\ pc = "column"
    /\ possibilities' = reduce_column(possibilities, i)
    /\ Advance("column", "box")
    /\ UNCHANGED <<puzzle_string, puzzle_array, old_possibilities,
                   new_possibilities, passes, raised, ret, caller>>

ReduceBox ==
    /\ pc = "box"
    /\ possibilities' = reduce_box(possibilities, i)
    /\ Advance("box", "unique")
    /\ UNCHANGED <<puzzle_string, puzzle_array, old_possibilities,
                   new_possibilities, passes, raised, ret, caller>>

\* the last iteration also runs line 218
FindUnique ==
    /\ pc = "unique"
    /\ possibilities' = find_unique_possibilities_by_box(possibilities, i)
    /\ Advance("unique", "while")
    /\ IF i + 1 < Side
       THEN UNCHANGED <<new_possibilities, passes>>
       ELSE /\ new_possibilities' = number_of_possibilites(possibilities')
            /\ passes' = passes + 1
    /\ UNCHANGED <<puzzle_string, puzzle_array, old_possibilities, raised, ret, caller>>

\* ------------------------------------------------------------ queries
Constructed == pc = "done" /\ ~caller.active

Query(name, value) ==
    /\ Constructed
    /\ ret' = [query |-> name, value |-> value]
    /\ UNCHANGED <<puzzle_string, puzzle_array, possibilities, old_possibilities,
                   new_possibilities, pc, i, passes, raised, caller>>

GetReducedPuzzle == Query("get_reduced_puzzle", get_reduced_puzzle(possibilities))

GetPossibilitiesForWeb ==
    Query("get_possibilities_for_web", get_possibilities_for_web(possibilities))

NumberOfPossibilites ==
    Query("number_of_possibilites", number_of_possibilites(possibilities))

\* check_valid_solution, line 74: the constructor of temp_puzzle starts
CheckValidSolutionCall ==
    /\ Constructed
    /\ caller' = [active |-> TRUE, puzzle_string |-> puzzle_string,
                  puzzle_array |-> puzzle_array, possibilities |-> possibilities,
                  old_possibilities |-> old_possibilities,
                  new_possibilities |-> new_possibilities, passes |-> passes]
    /\ puzzle_string' = get_reduced_puzzle(possibilities)
    /\ puzzle_array' = <<>>
    /\ possibilities' = <<>>
    /\ old_possibilities' = 0
    /\ new_possibilities' = 0
    /\ pc' = "new"
    /\ i' = 0
    /\ passes' = 0
    /\ raised' = NoError
    /\ ret' = NoReturn

\* check_valid_solution, lines 75-77: temp_puzzle was built, or its constructor raised
CheckValidSolutionReturn ==
    /\ caller.active
    /\ pc \in {"done", "raised"}
    /\ ret' = [query |-> "check_valid_solution", value |-> (pc = "done")]
    /\ puzzle_string' = caller.puzzle_string
    /\ puzzle_array' = caller.puzzle_array
    /\ possibilities' = caller.possibilities
    /\ old_possibilities' = caller.old_possibilities
    /\ new_possibilities' = caller.new_possibilities
    /\ passes' = caller.passes
    /\ pc' = "done"
    /\ i' = 0
    /\ raised' = NoError
    /\ caller' = NoCaller

Next ==
    \/ Parse
    \/ CheckValidPuzzle
    \/ BuildInitial
    \/ WhileTest
    \/ ReduceRow
    \/ ReduceColumn
    \/ ReduceBox
    \/ FindUnique
    \/ GetReducedPuzzle
    \/ GetPossibilitiesForWeb
    \/ NumberOfPossibilites
    \/ CheckValidSolutionCall
    \/ CheckValidSolutionReturn

Spec == Init /\ [][Next]_vars

NextParser == Parse \/ CheckValidPuzzle

SpecParser == InitParser /\ [][NextParser]_vars

\* ------------------------------------------------------------ properties
Cells == 0..(NumCells - 1)

DigitChars == {Digits[n] : n \in 1..Side}

RowOf(c) == c \div Side

ColumnOf(c) == c % Side

BoxOf(c) == (RowOf(c) \div 3) * 3 + (ColumnOf(c) \div 3)

Peers(c, d) ==
    c # d /\ (RowOf(c) = RowOf(d) \/ ColumnOf(c) = ColumnOf(d) \/ BoxOf(c) = BoxOf(d))

Units == 0..(Side - 1)

\* the cells c with RowOf(c) = n, ColumnOf(c) = n, BoxOf(c) = n
RowSet(n) == {Side * n + k : k \in Units}

ColumnSet(n) == {n + Side * k : k \in Units}

BoxSet(n) == {27 * (n \div 3) + 3 * (n % 3) + Side * (k \div 3) + (k % 3) : k \in Units}

\* the cells d with Peers(c, d)
PeerSet(c) == (RowSet(RowOf(c)) \cup ColumnSet(ColumnOf(c)) \cup BoxSet(BoxOf(c))) \ {c}

\* the unit sets are the ones the index arithmetic defines
UnitSetsAgree ==
    /\ \A n \in Units :
          /\ RowSet(n) = {c \in Cells : RowOf(c) = n}
          /\ ColumnSet(n) = {c \in Cells : ColumnOf(c) = n}
          /\ BoxSet(n) = {c \in Cells : BoxOf(c) = n}
    /\ \A c \in Cells : PeerSet(c) = {d \in Cells : Peers(c, d)}

AsSet(list) == {list[k] : k \in DOMAIN list}

Built == possibilities # <<>>

Solved(poss, c) == Len(At(poss, c)) = 1

CompleteValid(grid) ==
    /\ Len(grid) = NumCells
    /\ \A c \in Cells : At(grid, c) \in DigitChars
    /\ \A n \in Units :
          /\ {At(grid, c) : c \in RowSet(n)} = DigitChars
          /\ {At(grid, c) : c \in ColumnSet(n)} = DigitChars
          /\ {At(grid, c) : c \in BoxSet(n)} = DigitChars

Agrees(grid, arr) == \A c \in Cells : At(arr, c) # " " => At(arr, c) = At(grid, c)

\* the running elimination step's unit, as a set of cells
StepUnit ==
    CASE pc = "row" -> RowSet(i)
      [] pc = "column" -> ColumnSet(i)
      [] pc = "box" -> BoxSet(i)
      [] OTHER -> {}

SameEngine == caller' = caller

\* C1: the candidate total never rises above the total the running pass began
\* with, a completed pass leaves a total no larger than the one before it, and
\* the number of completed passes is at most one more than the candidates
\* removed so far, hence at most 729 - 81 decreasing passes and one final pass.
C1_TotalNonIncreasingPassesBounded ==
    Built =>
        LET total == number_of_possibilites(possibilities) IN
        /\ total <= old_possibilities
        /\ (passes > 0 /\ pc \in {"while", "done"} =>
                /\ new_possibilities <= old_possibilities
                /\ new_possibilities = total)
        /\ passes <= (FullCount - total) + 1
        /\ passes <= (FullCount - NumCells) + 1
        /\ (pc = "done" => new_possibilities = old_possibilities)

C1_Witness ==
    /\ pc = "done"
    /\ ~caller.active
    /\ passes >= 4
    /\ number_of_possibilites(possibilities) > NumCells

\* C2: after construction every candidate list is non-empty and holds only
\* the digits 1 to 9.
C2_CandidatesNonEmptyDigits ==
    pc = "done" =>
        \A c \in Cells :
            /\ At(possibilities, c) # <<>>
            /\ AsSet(At(possibilities, c)) \subseteq DigitChars

\* C2, the part the code keeps: no candidate list is ever empty.
C2_CandidatesNonEmpty ==
    Built => \A c \in Cells : At(possibilities, c) # <<>>

\* C3 as stated: the engine built from get_reduced_puzzle() of a constructed
\* engine is constructed too, and its get_reduced_puzzle() is the same string.
C3_Idempotent ==
    caller.active =>
        /\ pc # "raised"
        /\ (pc = "done" =>
                get_reduced_puzzle(possibilities) = get_reduced_puzzle(caller.possibilities))

\* C3 amended: the second construction either raises the invalid-puzzle error
\* or ends with the same get_reduced_puzzle(); it does not raise when a known
\* complete grid agrees with the first engine's givens.
C3_IdempotentWhenRevalidated ==
    caller.active =>
        /\ (pc = "done" =>
                get_reduced_puzzle(possibilities) = get_reduced_puzzle(caller.possibilities))
        /\ (pc = "raised" =>
                /\ \E c \in Cells : \E d \in PeerSet(c) :
                      /\ Solved(caller.possibilities, c)
                      /\ At(caller.possibilities, c) = At(caller.possibilities, d)
                /\ \A grid \in Solutions :
                      ~(Agrees(grid, caller.puzzle_array) /\ CompleteValid(grid)))

C3_Witness ==
    /\ caller.active
    /\ pc = "done"
    /\ passes >= 2
    /\ \E c \in Cells : At(caller.puzzle_array, c) = " " /\ Solved(possibilities, c)
    /\ \E c \in Cells : ~Solved(possibilities, c)

\* a digit 1..9 that two given cells of one unit share
Duplicate(arr, c, d) == c # d /\ At(arr, c) = At(arr, d) /\ At(arr, c) \in DigitChars

BadBox(arr, n) == \E c, d \in BoxSet(n) : Duplicate(arr, c, d)

BadRow(arr, n) == \E c, d \in RowSet(n) : Duplicate(arr, c, d)

BadColumn(arr, n) == \E c, d \in ColumnSet(n) : Duplicate(arr, c, d)

\* no check before (n, kind) in the order box 0, row 0, column 0, box 1, ... fails
FirstBad(arr, n, kind) ==
    /\ \A m \in 0..(n - 1) : ~BadBox(arr, m) /\ ~BadRow(arr, m) /\ ~BadColumn(arr, m)
    /\ kind # "box" => ~BadBox(arr, n)
    /\ kind = "column" => ~BadRow(arr, n)

\* C4: a digit given twice in a row, column or box makes the constructor raise
\* before any candidate list exists, with the message of the first failing
\* check in the order box n, row n, column n for n = 0..8; otherwise it does
\* not raise.
C4_DuplicateRaises ==
    pc \in {"valid", "raised"} =>
        /\ (pc = "raised") =
              (\E n \in Units :
                  BadBox(puzzle_array, n) \/ BadRow(puzzle_array, n) \/ BadColumn(puzzle_array, n))
        /\ (pc = "raised" =>
                /\ possibilities = <<>>
                /\ ret = NoReturn
                /\ \E n \in Units :
                      \/ raised = "Invalid puzzle. Bad box."
                           /\ BadBox(puzzle_array, n) /\ FirstBad(puzzle_array, n, "box")
                      \/ raised = "Invalid puzzle. Bad row."
                           /\ BadRow(puzzle_array, n) /\ FirstBad(puzzle_array, n, "row")
                      \/ raised = "Invalid puzzle. Bad column."
                           /\ BadColumn(puzzle_array, n)
                           /\ FirstBad(puzzle_array, n, "column"))

C4_Witness ==
    /\ pc = "raised"
    /\ ~caller.active
    /\ raised = "Invalid puzzle. Bad row."
    /\ \E n \in Units : BadColumn(puzzle_array, n)

\* the characters of the text that are neither carriage return nor line feed
Counted(text) == SelectSeq(text, LAMBDA ch : ch # "\n" /\ ch # "\r")

\* C5: the parser yields 81 cells; cell k - 1 is the k-th character that is
\* not CR or LF when that character is one of '1'..'9', and a blank when it is
\* any other character or when the text has fewer than k such characters.
C5_ParserCells ==
    pc # "new" =>
        /\ Len(puzzle_array) = NumCells
        /\ \A k \in 1..NumCells :
              puzzle_array[k] =
                  IF k <= Len(Counted(puzzle_string))
                        /\ Counted(puzzle_string)[k] \in DigitChars
                  THEN Counted(puzzle_string)[k]
                  ELSE " "

\* C5, the part the code keeps: the same with every decimal digit, '0'
\* included, taken as a given.
C5_ParserCellsNumeric ==
    pc # "new" =>
        /\ Len(puzzle_array) = NumCells
        /\ \A k \in 1..NumCells :
              puzzle_array[k] =
                  IF k <= Len(Counted(puzzle_string))
                        /\ Counted(puzzle_string)[k] \in DigitChars \cup {"0"}
                  THEN Counted(puzzle_string)[k]
                  ELSE " "

\* C6: every known complete valid grid that agrees with the givens keeps its
\* digit among the candidates of every cell, in every state of the reduction.
C6_Sound ==
    Built =>
        \A grid \in Solutions :
            Agrees(grid, puzzle_array) /\ CompleteValid(grid) =>
                \A c \in Cells : In(At(grid, c), At(possibilities, c))

\* a blank cell now solved although some other digit is no solved value of
\* any of its peers: a hidden single was collapsed
C6_Witness ==
    /\ Built
    /\ \E grid \in Solutions : Agrees(grid, puzzle_array) /\ CompleteValid(grid)
    /\ \E c \in Cells :
          /\ At(puzzle_array, c) = " "
          /\ Solved(possibilities, c)
          /\ \E x \in DigitChars :
                /\ x # At(possibilities, c)[1]
                /\ \A d \in PeerSet(c) :
                      Solved(possibilities, d) => At(possibilities, d)[1] # x

\* the fixed layout of a cell's candidates: three rows of three characters,
\* each ended by a newline, digit n at place n when it is a candidate
Layout(cell) ==
    [k \in 1..12 |->
        IF k % 4 = 0 THEN "\n"
        ELSE LET n == 3 * ((k - 1) \div 4) + (k % 4)
             IN IF In(str(n), cell) THEN str(n) ELSE " "]

\* C7: get_possibilities_for_web returns 81 units in cell order, the digit for
\* a solved cell and the fixed three-by-three layout for an unsolved cell.
C7_WebUnits ==
    ret.query = "get_possibilities_for_web" =>
        /\ Len(ret.value) = NumCells
        /\ \A c \in Cells :
              At(ret.value, c) =
                  IF Solved(possibilities, c)
                  THEN [type |-> "str", value |-> <<At(possibilities, c)[1]>>]
                  ELSE [type |-> "str", value |-> Layout(At(possibilities, c))]

\* C7 for the unsolved cells alone
C7_WebLayout ==
    ret.query = "get_possibilities_for_web" =>
        \A c \in Cells :
            ~Solved(possibilities, c) =>
                At(ret.value, c).value = Layout(At(possibilities, c))

\* C7, the part the code keeps: a cell holding all nine candidates is shown as
\* the rows 123, 456, 789, and the candidates present appear in order.
C7_WebFullCell ==
    ret.query = "get_possibilities_for_web" =>
        \A c \in Cells :
            /\ Len(At(possibilities, c)) = Side =>
                  At(ret.value, c) = [type |-> "str", value |-> Layout(At(possibilities, c))]
            /\ ~Solved(possibilities, c) =>
                  SelectSeq(At(ret.value, c).value, LAMBDA ch : ch \in DigitChars)
                      = At(possibilities, c)

\* C8: a cell with one candidate keeps it through every later step, a given
\* cell holds its given from the start, the given grid is never modified, and
\* get_reduced_puzzle() is 81 characters: each given at its index, the digit
\* of each solved cell, '.' for each unsolved cell.
C8_SolvedCellsKept ==
    /\ [][ SameEngine =>
             /\ (puzzle_array # <<>> => puzzle_array' = puzzle_array)
             /\ (Built /\ possibilities' # <<>> =>
                    \A c \in Cells :
                        Solved(possibilities, c) =>
                            At(possibilities', c) = At(possibilities, c)) ]_vars
    /\ [](Built =>
            \A c \in Cells :
                At(puzzle_array, c) # " " => At(possibilities, c) = <<At(puzzle_array, c)>>)
    /\ [](ret.query = "get_reduced_puzzle" =>
            /\ Len(ret.value) = NumCells
            /\ \A c \in Cells :
                  /\ At(puzzle_array, c) # " " => At(ret.value, c) = At(puzzle_array, c)
                  /\ Solved(possibilities, c) => At(ret.value, c) = At(possibilities, c)[1]
                  /\ ~Solved(possibilities, c) => At(ret.value, c) = ".")

C8_Witness ==
    /\ ret.query = "get_reduced_puzzle"
    /\ passes >= 3
    /\ \E c \in Cells : At(puzzle_array, c) \in DigitChars
    /\ \E c \in Cells : At(puzzle_array, c) = " " /\ Solved(possibilities, c)
    /\ \E c \in Cells : ~Solved(possibilities, c)

\* the solved values of the running step's unit
StepSolvedValues ==
    {At(possibilities, c)[1] : c \in {d \in StepUnit : Solved(possibilities, d)}}

\* C9 as stated: after an elimination step no cell of the unit that was
\* unsolved when the step began holds a digit that was a solved value of the
\* unit when the step began.
C9_EliminatesAll ==
    [][ SameEngine /\ pc \in {"row", "column", "box"} =>
          LET values == StepSolvedValues IN
          \A c \in StepUnit :
              ~Solved(possibilities, c) =>
                  AsSet(At(possibilities', c)) \cap values = {} ]_vars

\* C9 amended: a cell that was unsolved when the step began and had a candidate
\* that was no solved value of the unit loses exactly the solved values; a cell
\* all of whose candidates were solved values of the unit keeps one of them;
\* no other cell changes.
C9_EliminatesDownToOne ==
    [][ SameEngine /\ pc \in {"row", "column", "box"} =>
          LET unit == StepUnit
              values == StepSolvedValues
          IN
          \A c \in Cells :
              LET before == At(possibilities, c)
                  after == At(possibilities', c)
                  kept == SelectSeq(before, LAMBDA x : x \notin values)
              IN IF c \in unit /\ ~Solved(possibilities, c)
                 THEN IF kept # <<>>
                      THEN after = kept
                      ELSE Len(after) = 1 /\ AsSet(after) \subseteq AsSet(before)
                 ELSE after = before ]_vars

\* an elimination has removed candidates from a cell of the first row
C9_Witness ==
    /\ pc = "row"
    /\ i = 1
    /\ passes = 0
    /\ \E c \in Cells :
          /\ RowOf(c) = 0
          /\ Len(At(possibilities, c)) > 1
          /\ Len(At(possibilities, c)) < Side - 2

RECURSIVE Repeat(_, _, _)
Repeat(Rule(_, _), poss, n) ==
    IF n >= Side THEN poss ELSE Repeat(Rule, Rule(poss, n), n + 1)

\* one more full pass of the loop body
FullPass(poss) ==
    Repeat(find_unique_possibilities_by_box,
           Repeat(reduce_box, Repeat(reduce_column, Repeat(reduce_row, poss, 0), 0), 0), 0)

\* C10: when the constructor returns, one more full pass (rows, columns,
\* boxes, hidden singles) changes no candidate list.
C10_FixedPoint ==
    pc = "done" => FullPass(possibilities) = possibilities

C10_Witness ==
    /\ pc = "done"
    /\ ~caller.active
    /\ passes >= 3
    /\ \E c \in Cells : Len(At(possibilities, c)) > 1 /\ Len(At(possibilities, c)) < Side

====
